---- MODULE Spec2Model ----
(***************************************************************************)
(* Client-side analysis orchestration of PaperScope (App component):      *)
(* the bounded analysis queue, the per-id sync coordinator, the health     *)
(* flag, the reload of papers from the backend, and the backend's          *)
(* metadata store behind /api/papers.                                      *)
(*                                                                         *)
(* JavaScript runs handlers to completion; a handler is suspended only at  *)
(* an await.  Every action below is one such run: from an event (a click,  *)
(* a timer, a settled network request) up to the next await of every       *)
(* continuation it triggers.  `papers` stands for both the React state     *)
(* and papersRef.current, which the effect at lines 142-144 keeps equal.   *)
(***************************************************************************)
EXTENDS Integers, Sequences, FiniteSets, TLC

\* ---- program constant ----
MAX_PARALLEL_ANALYSES == 2

\* ---- bounds of the model ----
\* A run is bounded by a profile: how many records of an earlier session the
\* backend holds at startup, how many ids there are in all (those plus the ids
\* uuidv4 hands out), how many times the user edits tags, retries, deletes and
\* logs out, how many times the backend goes down or comes back, how many
\* analysis calls reject, and how many analysis calls settle at all within the
\* run (a call to the model may stay pending for as long as the run lasts).
\* Init picks one profile of Profiles.
Profile(s, p, e, r, d, l, f, j, t) ==
  [stored |-> s, papers |-> p, edits |-> e, retries |-> r, deletes |-> d,
   logouts |-> l, flips |-> f, rejects |-> j, settles |-> t]

\* more than the analysis calls any profile can start: every call may settle
AllSettle == 8

MaxPapers  == 4   \* ids of the queue profile, and the size of PaperIds
MaxLoads   == 1   \* GET /api/papers requests outstanding at once
MaxWaiting == 1   \* handleFilesSelected calls awaiting their probe at once
MaxStore   == 3   \* records the backend array may hold, above the number of ids posted
MaxParts   == 2   \* parts of a requested file name before its extension

QueueProfile == Profile(0, MaxPapers, 0, 0, 1, 0, 0, 0, AllSettle)

RetryProfile == Profile(0, 3, 0, 1, 1, 0, 0, 1, AllSettle)

LogoutProfile == Profile(0, 3, 0, 0, 0, 1, 0, 0, AllSettle)

SessionProfile == Profile(0, 1, 1, 1, 1, 1, 2, 1, AllSettle)

ReturnProfile == Profile(MaxPapers, MaxPapers, 0, 6, 0, 1, 0, 1, 1)

Profiles == {QueueProfile, RetryProfile, LogoutProfile, SessionProfile, ReturnProfile}

\* the backend goes down and comes back while three files are analysed
OfflineProfile == Profile(0, 3, 0, 0, 0, 0, 2, 1, AllSettle)

\* two files are uploaded, ticked and compared; the user deletes one and logs
\* out and in
SelectProfile == Profile(0, 2, 0, 0, 1, 1, 0, 0, AllSettle)

AllProfiles == Profiles \cup {OfflineProfile, SelectProfile}

PaperIds == 1..MaxPapers
TagVals  == {0, 1}

VARIABLES
  currentUser,             \* BOOLEAN: a user is logged in (currentUser !== null)
  isConnected,             \* cached backend health flag
  backendUp,               \* environment: the backend answers requests
  papers,                  \* paper store: id -> PaperData, for the ids present
  analysisQueueRef,        \* backlog: sequence of tasks [id, ticket]
  analysisQueuedIdsRef,    \* de-dup set of ids
  activeAnalysisCountRef,  \* running count
  running,                 \* processPaper invocations awaiting analyzePaperWithGemini
  syncInFlightRef,         \* ids with a drain loop marked in flight
  syncPendingRef,          \* id -> [paper, seq] pending record
  loops,                   \* drain loops suspended at an await
  server,                  \* backend metadata store (papers.json): id -> metadata
  dels,                    \* DELETE /api/papers/:id requests in flight: id -> count
  loads,                   \* GET /api/papers requests in flight
  fsWait,                  \* handleFilesSelected calls awaiting performHealthCheck
  nextId,                  \* next fresh paper id
  lim,                     \* the profile that bounds this run
  used,                    \* what the run has used of its profile
  tickets,                 \* history: number of enqueueAnalysis calls accepted so far
  purged,                  \* history: tickets deletePaper removed from the backlog
  dropped,                 \* history: tickets handleLogout removed from the backlog
  starts,                  \* history: ticket -> number of processPaper calls made for it
  lastSync,                \* history: id -> the last syncPaperToDB call for id:
                           \*   its record, its number, the outcome of its attempt
  delivered,               \* history: id -> seq of the record last passed to savePaperToDB
  unhandled,               \* history: a promise rejected to a caller that does not catch
  call,                    \* one analyzePaperWithGemini call: its response and what became of it
  disk,                    \* the backend's storage as server.js keeps it, and its last request
  selectedPaperIds,        \* ids whose checkbox is ticked
  comparison,              \* the last comparePapersWithGemini call: the papers passed to it
  gemini                   \* the API key of the gemini service: cachedApiKey,
                           \*   apiKeyFetchPromise, and the callers of getApiKey

vars == << currentUser, isConnected, backendUp, papers, analysisQueueRef, analysisQueuedIdsRef,
           activeAnalysisCountRef, running, syncInFlightRef, syncPendingRef, loops,
           server, dels, loads, fsWait, nextId, lim, used, tickets, purged, dropped,
           starts, lastSync, delivered, unhandled, call, disk,
           selectedPaperIds, comparison, gemini >>

\* every variable but selectedPaperIds and comparison
appUnselected == << currentUser, isConnected, backendUp, papers, analysisQueueRef,
                    analysisQueuedIdsRef, activeAnalysisCountRef, running, syncInFlightRef,
                    syncPendingRef, loops, server, dels, loads, fsWait, nextId, lim, used,
                    tickets, purged, dropped, starts, lastSync, delivered, unhandled, call,
                    disk, gemini >>

\* every variable but gemini
allButGemini == << currentUser, isConnected, backendUp, papers, analysisQueueRef,
                   analysisQueuedIdsRef, activeAnalysisCountRef, running, syncInFlightRef,
                   syncPendingRef, loops, server, dels, loads, fsWait, nextId, lim, used,
                   tickets, purged, dropped, starts, lastSync, delivered, unhandled, call,
                   disk, selectedPaperIds, comparison >>

\* every variable but disk
appVars == << currentUser, isConnected, backendUp, papers, analysisQueueRef, analysisQueuedIdsRef,
              activeAnalysisCountRef, running, syncInFlightRef, syncPendingRef, loops,
              server, dels, loads, fsWait, nextId, lim, used, tickets, purged, dropped,
              starts, lastSync, delivered, unhandled, call,
              selectedPaperIds, comparison, gemini >>

\* ---- helpers ----
Without(f, k) == [x \in (DOMAIN f) \ {k} |-> f[x]]

With(f, k, v) == [x \in (DOMAIN f) \cup {k} |-> IF x = k THEN v ELSE f[x]]

RemoveAt(s, i) == SubSeq(s, 1, i - 1) \o SubSeq(s, i + 1, Len(s))

Empty == [x \in {} |-> 0]

\* prev.map(p => p.id === id ? {...p, saveStatus: st} : p)
SetSaveStatus(ps, id, st) ==
  IF id \in DOMAIN ps THEN [ps EXCEPT ![id].saveStatus = st] ELSE ps

\* the record handleFilesSelected creates for a file
NewPaper == [status |-> "idle", saveStatus |-> "saving", file |-> "blob",
             analysis |-> FALSE, err |-> FALSE, tags |-> 0]

\* ---- the client state handlers work on, as one record ----
\*   ps = papers, pend = syncPendingRef, infl = syncInFlightRef, lp = loops,
\*   q = analysisQueueRef, ids = analysisQueuedIdsRef, n = activeAnalysisCountRef,
\*   run = running; tk = tickets, pg = purged, dr = dropped, st = starts,
\*   ls = lastSync, dl = delivered are history.
Cur ==
  [ps |-> papers, pend |-> syncPendingRef, infl |-> syncInFlightRef, lp |-> loops,
   q |-> analysisQueueRef, ids |-> analysisQueuedIdsRef, n |-> activeAnalysisCountRef,
   run |-> running, tk |-> tickets, pg |-> purged, dr |-> dropped, st |-> starts,
   ls |-> lastSync, dl |-> delivered]

\* the handler's result, computed once, becomes the next client state
Commit(result) ==
  \E a \in {result} :
    /\ papers' = a.ps
    /\ syncPendingRef' = a.pend
    /\ syncInFlightRef' = a.infl
    /\ loops' = a.lp
    /\ analysisQueueRef' = a.q
    /\ analysisQueuedIdsRef' = a.ids
    /\ activeAnalysisCountRef' = a.n
    /\ running' = a.run
    /\ tickets' = a.tk
    /\ purged' = a.pg
    /\ dropped' = a.dr
    /\ starts' = a.st
    /\ lastSync' = a.ls
    /\ delivered' = a.dl

\* ---- Sync Coordinator (syncPaperToDB) ----
\* lines 200, 208-216: the attempt for the record numbered seq ends with
\* saveStatus st; the history notes it when that record is the last one passed.
Attempted(a, id, seq, st) ==
  [a EXCEPT !.ps = SetSaveStatus(@, id, st),
            !.ls[id].outcome = IF a.ls[id].seq = seq THEN st ELSE @]

\* lines 204-207: mark the record 'saving' and call savePaperToDB(pendingPaper);
\* the loop is then suspended until the request settles.
StartSave(a, id, conn, pp) ==
  [a EXCEPT !.ps = SetSaveStatus(@, id, "saving"),
            !.lp = Append(@, [id |-> id, conn |-> conn, pc |-> "save",
                              paper |-> pp.paper, seq |-> pp.seq]),
            !.dl[id] = pp.seq]

\* a drain loop whose break leaves the in-flight marker set
DrainStepKeepsMarker(a, id, conn) ==
  IF id \in DOMAIN a.pend
    THEN LET pp == a.pend[id]
             a1 == [a EXCEPT !.pend = Without(@, id)]
         IN  IF ~conn
               THEN [a1 EXCEPT !.lp = Append(@, [id |-> id, conn |-> conn, pc |-> "probe",
                                                 paper |-> pp.paper, seq |-> pp.seq])]
               ELSE StartSave(a1, id, conn, pp)
    ELSE a

\* lines 186-202 and 218-226: one pass of `while (true)` up to its first await.
\* conn is the isConnected value the closure of this syncPaperToDB captured.
\* (After the break no pending value exists, so the restart at 220-225 does
\* nothing in a run-to-completion step.)
DrainStep(a, id, conn) ==
  IF id \in DOMAIN a.pend
    THEN LET pp == a.pend[id]
             a1 == [a EXCEPT !.pend = Without(@, id)]
         IN  IF ~conn
               THEN [a1 EXCEPT !.lp = Append(@, [id |-> id, conn |-> conn, pc |-> "probe",
                                                 paper |-> pp.paper, seq |-> pp.seq])]
               ELSE StartSave(a1, id, conn, pp)
    ELSE [a EXCEPT !.infl = @ \ {id}]

\* lines 180-185: syncPaperToDB(paper) up to its first await.
syncPaperToDB(a, id, paper, conn) ==
  LET pp == [paper |-> paper, seq |-> a.ls[id].seq + 1]
      a1 == [a EXCEPT !.pend = With(@, id, pp),
                      !.ls[id] = [paper |-> paper, seq |-> pp.seq, outcome |-> "none"]]
  IN  IF id \in a1.infl THEN a1
      ELSE DrainStep([a1 EXCEPT !.infl = @ \cup {id}], id, conn)

\* ---- Analysis Queue ----
\* lines 374-382: processPaper up to `await analyzePaperWithGemini`.
StartPaper(ps, id) ==
  IF id \in DOMAIN ps
    THEN [ps EXCEPT ![id].status = "analyzing", ![id].err = FALSE]
    ELSE ps

\* a dispatch loop that takes the task accepted last
ShiftLast(q) == [task |-> q[Len(q)], rest |-> SubSeq(q, 1, Len(q) - 1)]

\* line 251: analysisQueueRef.current.shift()
Shift(q) == [task |-> Head(q), rest |-> Tail(q)]

\* lines 246-261: the dispatch loop.  conn is the isConnected value captured by
\* the closure that runs the loop; processPaper inherits it.
RECURSIVE runAnalysisQueue(_, _)
runAnalysisQueue(a, conn) ==
  IF a.n < MAX_PARALLEL_ANALYSES /\ Len(a.q) > 0
    THEN LET task == Shift(a.q).task
         IN  runAnalysisQueue(
               [a EXCEPT !.q   = Shift(a.q).rest,
                         !.n   = @ + 1,
                         !.ps  = StartPaper(@, task.id),
                         !.st  = With(@, task.ticket,
                                      IF task.ticket \in DOMAIN @ THEN @[task.ticket] + 1
                                                                  ELSE 1),
                         !.run = Append(@, [id |-> task.id, ticket |-> task.ticket,
                                            conn |-> conn, del |-> FALSE])],
               conn)
    ELSE a

\* a finally callback that runs the dispatch loop only while the health flag
\* is true
SettledGated(a, id, conn) ==
  IF isConnected
    THEN runAnalysisQueue([a EXCEPT !.n = IF @ > 0 THEN @ - 1 ELSE 0, !.ids = @ \ {id}], conn)
    ELSE [a EXCEPT !.n = IF @ > 0 THEN @ - 1 ELSE 0, !.ids = @ \ {id}]

\* a finally callback that frees the slot and does not run the dispatch loop
SettledIdle(a, id, conn) ==
  [a EXCEPT !.n = IF @ > 0 THEN @ - 1 ELSE 0, !.ids = @ \ {id}]

\* lines 255-259: the finally callback of a dispatched task.
Settled(a, id, conn) ==
  runAnalysisQueue([a EXCEPT !.n = IF @ > 0 THEN @ - 1 ELSE 0, !.ids = @ \ {id}], conn)

\* lines 263-268: enqueueAnalysis(id, file, settings).  The history numbers the
\* accepted calls: the task gets the next ticket.
enqueueAnalysis(a, id, conn) ==
  IF id \in a.ids THEN a
  ELSE runAnalysisQueue(
         [a EXCEPT !.ids = @ \cup {id},
                   !.q   = Append(@, [id |-> id, ticket |-> a.tk + 1]),
                   !.tk  = @ + 1],
         conn)

\* ---- backend (server.js) ----
\* app.post('/api/papers'), step 2: upsert of the metadata keyed by id.  The
\* body is JSON: an undefined errorMessage is not in it, so the spread keeps
\* the stored one.  seq is history: which sync call the stored record is from.
Upsert(srv, id, paper, seq) ==
  With(srv, id,
       [status |-> paper.status, saveStatus |-> paper.saveStatus,
        analysis |-> paper.analysis, tags |-> paper.tags,
        err |-> IF paper.err THEN TRUE
                ELSE IF id \in DOMAIN srv THEN srv[id].err ELSE FALSE,
        seq |-> seq])

\* app.get('/api/papers'): every stored record, file replaced by its URL.
GetPapers(srv) ==
  [id \in DOMAIN srv |->
     [status |-> srv[id].status, saveStatus |-> srv[id].saveStatus, file |-> "url",
      analysis |-> srv[id].analysis, err |-> srv[id].err, tags |-> srv[id].tags]]

\* ---- the effect on [currentUser, isConnected] (lines 163-177) ----
\* It runs after a render in which either value changed.
Changed(cu, ic) == cu # currentUser \/ ic # isConnected

StartsLoad(cu, ic) == Changed(cu, ic) /\ cu /\ ic

EffectOK(cu, ic) == StartsLoad(cu, ic) => Len(loads) < MaxLoads

Effect(a, cu, ic) ==
  /\ currentUser' = cu
  /\ isConnected' = ic
  /\ loads' = IF StartsLoad(cu, ic) THEN Append(loads, [st |-> "req", list |-> Empty])
              ELSE loads
  /\ Commit(IF Changed(cu, ic) /\ ~cu THEN [a EXCEPT !.ps = Empty] ELSE a)

\* a record the backend holds from an earlier session: its analysis failed
StoredMeta == [status |-> "error", saveStatus |-> "saved", analysis |-> FALSE,
               tags |-> 0, err |-> TRUE, seq |-> 0]

\* The user is logged in (localStorage), the backend is up, and the load of the
\* effect at startup has put the backend's records into the store.
\* comparePapersWithGemini has not been called
NoComparison == [pc |-> "none", selectedPapers |-> Empty]

AppInit ==
  /\ lim \in AllProfiles
  /\ currentUser = TRUE
  /\ isConnected = TRUE
  /\ backendUp = TRUE
  /\ server = [id \in 1..lim.stored |-> StoredMeta]
  /\ papers = GetPapers(server)
  /\ nextId = lim.stored + 1
  /\ analysisQueueRef = << >>
  /\ analysisQueuedIdsRef = {}
  /\ activeAnalysisCountRef = 0
  /\ running = << >>
  /\ syncInFlightRef = {}
  /\ syncPendingRef = Empty
  /\ loops = << >>
  /\ dels = [id \in PaperIds |-> 0]
  /\ loads = << >>
  /\ fsWait = << >>
  /\ used = Profile(0, 0, 0, 0, 0, 0, 0, 0, 0)
  /\ tickets = 0
  /\ purged = {}
  /\ dropped = {}
  /\ starts = Empty
  /\ lastSync = [id \in PaperIds |-> [paper |-> NewPaper, seq |-> 0, outcome |-> "none"]]
  /\ delivered = [id \in PaperIds |-> 0]
  /\ selectedPaperIds = {}
  /\ comparison = NoComparison

\* no analyzePaperWithGemini call is looked into
NoCall == [pc |-> "none"]

\* the storage of a backend that has served no request: data_store.json
\* holds [] and the upload directory is empty (lines 27-38)
Storage ==
  [papers |-> << >>, files |-> {},
   req |-> [op |-> "none", body |-> [status |-> "analyzing"], id |-> "", filename |-> << >>],
   res |-> [status |-> 0, file |-> [up |-> 0, segs |-> << >>]], rep |-> FALSE]

\* ---- the API key of the gemini service (getApiKey) ----
MaxCallers  == 3   \* callers of getApiKey: two analyses and a comparison
MaxCalls    == 2   \* calls of getApiKey one caller makes
MaxRequests == 3   \* requests to /api/config/env in one run

Callers == 1..MaxCallers

\* lines 430-431 at module load: no key cached, no fetch promise.  env is
\* whether the build defines process.env.API_KEY.  promises[p] is the state of
\* the p-th fetch promise: awaiting fetch, awaiting res.json(), or settled
\* with a key or with undefined.  callers[c] is a caller of getApiKey: the
\* promise it awaits (0: none) and the value its last call gave it.
Service(env) ==
  [env |-> env, cachedApiKey |-> FALSE, apiKeyFetchPromise |-> 0, promises |-> << >>,
   callers |-> [c \in Callers |-> [pc |-> "idle", on |-> 0, got |-> "none", calls |-> 0]]]

Init ==
  AppInit /\ lim \in Profiles /\ unhandled = FALSE /\ call = NoCall /\ disk = Storage
    /\ gemini = Service(FALSE)

\* ---- uploads ----

\* lines 348-371: create the records of n files and, per file, enqueue the
\* analysis and start the sync.
RECURSIVE AddFiles(_, _, _, _)
AddFiles(a, id, n, conn) ==
  IF n = 0 THEN a
  ELSE AddFiles(syncPaperToDB(enqueueAnalysis(a, id, conn), id, NewPaper, conn),
                id + 1, n - 1, conn)

CreatePapers(a, n, conn) ==
  AddFiles([a EXCEPT !.ps = [id \in (DOMAIN a.ps) \cup (nextId..(nextId + n - 1)) |->
                               IF id \in DOMAIN a.ps THEN a.ps[id] ELSE NewPaper]],
           nextId, n, conn)

\* ids promised to the handleFilesSelected calls that await their probe
RECURSIVE Reserved(_)
Reserved(w) == IF w = << >> THEN 0 ELSE Head(w) + Reserved(Tail(w))

\* handleFilesSelected(files) with the flag true: no probe, the records are made.
handleFilesSelected(n) ==
  /\ currentUser
  /\ isConnected
  /\ nextId + Reserved(fsWait) + n - 1 <= lim.papers
  /\ Commit(CreatePapers(Cur, n, TRUE))
  /\ nextId' = nextId + n
  /\ UNCHANGED << gemini, selectedPaperIds, comparison, disk, call, unhandled, backendUp, currentUser, isConnected, server, dels, loads, fsWait, lim, used >>

\* handleFilesSelected(files) with the flag false: await performHealthCheck().
handleFilesSelectedProbe(n) ==
  /\ currentUser
  /\ ~isConnected
  /\ Len(fsWait) < MaxWaiting
  /\ nextId + Reserved(fsWait) + n - 1 <= lim.papers
  /\ fsWait' = Append(fsWait, n)
  /\ UNCHANGED << gemini, selectedPaperIds, comparison, disk, call, unhandled, backendUp, currentUser, isConnected, papers, analysisQueueRef, analysisQueuedIdsRef,
                  activeAnalysisCountRef, running, syncInFlightRef, syncPendingRef, loops,
                  server, dels, loads, nextId, lim, used, tickets, purged, dropped, starts, lastSync, delivered >>

\* a handleFilesSelected that goes on whatever its probe returned
AfterProbeIgnored(a, n, healthy) == CreatePapers(a, n, FALSE)

\* lines 335-341: `if (!healthy) { alert(...); return; }`, else lines 343-371
\* with the closure's isConnected (false).
AfterProbe(a, n, healthy) == IF healthy THEN CreatePapers(a, n, FALSE) ELSE a

\* the probe of a waiting handleFilesSelected settles: lines 147-153, 336-341,
\* then 343-371 with the closure's isConnected (false) and currentUser.
handleFilesSelectedResume ==
  /\ fsWait # << >>
  /\ EffectOK(currentUser, backendUp)
  /\ LET n       == Head(fsWait)
         healthy == backendUp
     IN  /\ Effect(AfterProbe(Cur, n, healthy), currentUser, healthy)
         /\ nextId' = IF healthy THEN nextId + n ELSE nextId
  /\ fsWait' = Tail(fsWait)
  /\ UNCHANGED << gemini, selectedPaperIds, comparison, disk, call, unhandled, backendUp, server, dels, lim, used >>

\* ---- analysis ----
\* analyzePaperWithGemini settles for running[i]: lines 384-396 (ok) or 398-426
\* (rejected), then the finally of runAnalysisQueue, lines 255-259.
processPaper(i, ok) ==
  /\ i \in 1..Len(running)
  /\ used.settles < lim.settles
  /\ ok \/ used.rejects < lim.rejects
  /\ used' = [used EXCEPT !.settles = @ + 1,
                          !.rejects = IF ok THEN @ ELSE @ + 1]
  /\ LET task  == running[i]
         id    == task.id
         a0    == [Cur EXCEPT !.run = RemoveAt(@, i)]
         found == id \in DOMAIN a0.ps
         updatedPaper ==
           IF ok THEN [a0.ps[id] EXCEPT !.status = "success", !.analysis = TRUE, !.err = FALSE]
                 ELSE [a0.ps[id] EXCEPT !.status = "error", !.err = TRUE]
         applied == IF found
                      THEN syncPaperToDB([a0 EXCEPT !.ps[id] = updatedPaper],
                                         id, updatedPaper, task.conn)
                      ELSE a0
     IN  \E a1 \in {applied} : Commit(Settled(a1, id, task.conn))
  /\ UNCHANGED << gemini, selectedPaperIds, comparison, disk, call, unhandled, backendUp, currentUser, isConnected, server, dels, loads, fsWait, nextId, lim >>

\* lines 429-435; the Retry button is rendered for a record in status 'error'.
retryAnalysis(id) ==
  /\ currentUser
  /\ id \in DOMAIN papers
  /\ papers[id].status = "error"
  /\ used.retries < lim.retries
  /\ Commit(enqueueAnalysis(Cur, id, isConnected))
  /\ used' = [used EXCEPT !.retries = @ + 1]
  /\ UNCHANGED << gemini, selectedPaperIds, comparison, disk, call, unhandled, backendUp, currentUser, isConnected, server, dels, loads, fsWait, nextId, lim >>

\* ---- edits ----
\* lines 514-526: saveTags(id) with the tags typed in.
saveTags(id, t) ==
  /\ currentUser
  /\ id \in DOMAIN papers
  /\ used.edits < lim.edits
  /\ LET updated == [papers[id] EXCEPT !.tags = t]
     IN  Commit(syncPaperToDB([Cur EXCEPT !.ps[id] = updated], id, updated, isConnected))
  /\ used' = [used EXCEPT !.edits = @ + 1]
  /\ UNCHANGED << gemini, selectedPaperIds, comparison, disk, call, unhandled, backendUp, currentUser, isConnected, server, dels, loads, fsWait, nextId, lim >>

\* ---- delete ----
\* lines 580-592: handleUpdateAnalysis(newContent) for the record open in the
\* detail modal; a record without analysis is left alone.
handleUpdateAnalysis(id) ==
  /\ currentUser
  /\ id \in DOMAIN papers
  /\ papers[id].analysis
  /\ used.edits < lim.edits
  /\ Commit(syncPaperToDB(Cur, id, papers[id], isConnected))
  /\ used' = [used EXCEPT !.edits = @ + 1]
  /\ UNCHANGED << gemini, selectedPaperIds, comparison, disk, call, unhandled, backendUp, currentUser, isConnected, server, dels, loads, fsWait, nextId, lim >>

\* a deletePaper that empties the backlog
PurgeTasksAll(q, id) == << >>

\* a deletePaper that leaves the backlog as it is
PurgeTasksKeep(q, id) == q

\* line 442: the backlog without the tasks of id
PurgeTasks(q, id) == SelectSeq(q, LAMBDA task : task.id # id)

\* lines 437-449: deletePaper(id).
deletePaper(id) ==
  /\ currentUser
  /\ id \in DOMAIN papers
  /\ used.deletes < lim.deletes
  /\ dels' = [dels EXCEPT ![id] = @ + 1]
  /\ Commit([Cur EXCEPT
       !.ps   = Without(@, id),
       !.pend = Without(@, id),
       !.q    = PurgeTasks(@, id),
       !.ids  = @ \ {id},
       !.run  = [k \in 1..Len(@) |-> IF @[k].id = id THEN [@[k] EXCEPT !.del = TRUE]
                                     ELSE @[k]],
       !.pg   = @ \cup {analysisQueueRef[k].ticket :
                          k \in {j \in 1..Len(analysisQueueRef) : analysisQueueRef[j].id = id}}])
  /\ selectedPaperIds' = selectedPaperIds \ {id}
  /\ used' = [used EXCEPT !.deletes = @ + 1]
  /\ UNCHANGED << gemini, comparison, disk, call, unhandled, backendUp, currentUser, isConnected, server, loads, fsWait, nextId, lim >>

\* ---- session ----
\* lines 234-244, then the effect's else branch.
handleLogout ==
  /\ currentUser
  /\ used.logouts < lim.logouts
  /\ Effect([Cur EXCEPT
       !.ps = Empty, !.q = << >>, !.ids = {}, !.n = 0, !.pend = Empty, !.infl = {},
       !.dr = @ \cup {analysisQueueRef[k].ticket : k \in 1..Len(analysisQueueRef)}],
       FALSE, isConnected)
  /\ used' = [used EXCEPT !.logouts = @ + 1]
  /\ UNCHANGED << gemini, selectedPaperIds, comparison, disk, call, unhandled, backendUp, server, dels, fsWait, nextId, lim >>

\* lines 229-232, then the effect.
handleLogin ==
  /\ ~currentUser
  /\ EffectOK(TRUE, isConnected)
  /\ Effect(Cur, TRUE, isConnected)
  /\ UNCHANGED << gemini, selectedPaperIds, comparison, disk, call, unhandled, backendUp, server, dels, fsWait, nextId, lim, used >>

\* ---- health ----
\* environment: the backend goes down or comes back.
backendFlips ==
  /\ used.flips < lim.flips
  /\ backendUp' = ~backendUp
  /\ used' = [used EXCEPT !.flips = @ + 1]
  /\ UNCHANGED << gemini, selectedPaperIds, comparison, disk, call, unhandled, currentUser, isConnected, papers, analysisQueueRef, analysisQueuedIdsRef,
                  activeAnalysisCountRef, running, syncInFlightRef, syncPendingRef, loops,
                  server, dels, loads, fsWait, nextId, lim, tickets, purged, dropped, starts, lastSync,
                  delivered >>

\* lines 147-153: a periodic (or manual) probe settles with a result that
\* differs from the cached flag; then the effect.
performHealthCheck ==
  /\ backendUp # isConnected
  /\ EffectOK(currentUser, backendUp)
  /\ Effect(Cur, currentUser, backendUp)
  /\ UNCHANGED << gemini, selectedPaperIds, comparison, disk, call, unhandled, backendUp, server, dels, fsWait, nextId, lim, used >>

\* ---- drain loop continuations ----
\* a loop that leaves at the failed probe instead of going on to the next pass
UnhealthyBreak(a, l) ==
  [Attempted(a, l.id, l.seq, "error") EXCEPT !.infl = @ \ {l.id}]

\* lines 199-202: `if (!healthy)` marks the record 'error' and continues with
\* the next pass of the loop
Unhealthy(a, l) == DrainStep(Attempted(a, l.id, l.seq, "error"), l.id, l.conn)

\* checkBackendHealth() of loops[i] settles: lines 193-202, then 204-207 or the
\* next pass of the loop.
checkBackendHealth(i) ==
  /\ i \in 1..Len(loops)
  /\ loops[i].pc = "probe"
  /\ EffectOK(currentUser, backendUp \/ isConnected)
  /\ LET l  == loops[i]
         a0 == [Cur EXCEPT !.lp = RemoveAt(@, i)]
         healthy == backendUp
     IN  Effect(IF healthy
                  THEN StartSave(a0, l.id, l.conn, [paper |-> l.paper, seq |-> l.seq])
                  ELSE Unhealthy(a0, l),
                currentUser, healthy \/ isConnected)
  /\ UNCHANGED << gemini, selectedPaperIds, comparison, disk, call, unhandled, backendUp, server, dels, fsWait, nextId, lim, used >>

\* lines 208-212: after a successful save the record holds the server reference
StoredFile(ps, id) ==
  IF id \in DOMAIN ps THEN [ps EXCEPT ![id].file = "url"] ELSE ps

\* savePaperToDB(pendingPaper) of loops[i] settles: the backend stored the
\* record and answered 200, or (backend down) the request failed; lines
\* 208-216, then the next pass of the loop.
savePaperToDB(i) ==
  /\ i \in 1..Len(loops)
  /\ loops[i].pc = "save"
  /\ LET l  == loops[i]
         a0 == [Cur EXCEPT !.lp = RemoveAt(@, i)]
         ok == backendUp
     IN  /\ server' = IF ok THEN Upsert(server, l.id, l.paper, l.seq) ELSE server
         /\ Commit(DrainStep(
               IF ok THEN Attempted([a0 EXCEPT !.ps = StoredFile(@, l.id)], l.id, l.seq, "saved")
                     ELSE Attempted(a0, l.id, l.seq, "error"),
               l.id, l.conn))
  /\ UNCHANGED << gemini, selectedPaperIds, comparison, disk, call, unhandled, backendUp, currentUser, isConnected, dels, loads, fsWait, nextId, lim, used >>

\* ---- requests the client does not wait for ----
\* a deletePaperFromDB without its try/catch
DeleteSettlesUncaught(fetched) == IF fetched THEN "resolved" ELSE "rejected"

\* db.ts lines 76-82: how the promise of deletePaperFromDB settles when fetch
\* resolved (fetched) or threw; the catch logs and returns.
DeleteSettles(fetched) == IF fetched THEN "resolved" ELSE "resolved"

\* deletePaperFromDB(id): the DELETE reaches the backend (app.delete), or the
\* fetch fails.  deletePaper (line 438) does not await or catch the promise.
deletePaperFromDB(id) ==
  /\ dels[id] > 0
  /\ dels' = [dels EXCEPT ![id] = @ - 1]
  /\ server' = IF backendUp THEN Without(server, id) ELSE server
  /\ unhandled' = (unhandled \/ DeleteSettles(backendUp) = "rejected")
  /\ UNCHANGED << gemini, selectedPaperIds, comparison, disk, call, backendUp, currentUser, isConnected, papers, analysisQueueRef, analysisQueuedIdsRef,
                  activeAnalysisCountRef, running, syncInFlightRef, syncPendingRef, loops,
                  loads, fsWait, nextId, lim, used, tickets, purged, dropped, starts, lastSync, delivered >>

\* getPapersFromDB: the backend answers request j with its list.
servePapers(j) ==
  /\ j \in 1..Len(loads)
  /\ loads[j].st = "req"
  /\ backendUp
  /\ loads' = [loads EXCEPT ![j] = [st |-> "resp", list |-> GetPapers(server)]]
  /\ UNCHANGED << gemini, selectedPaperIds, comparison, disk, call, unhandled, backendUp, currentUser, isConnected, papers, analysisQueueRef, analysisQueuedIdsRef,
                  activeAnalysisCountRef, running, syncInFlightRef, syncPendingRef, loops,
                  server, dels, fsWait, nextId, lim, used, tickets, purged, dropped, starts, lastSync, delivered >>

\* getPapersFromDB(...).then(...), lines 168-172: the list (or [] when the
\* request failed) replaces the store.
getPapersFromDB(j) ==
  /\ j \in 1..Len(loads)
  /\ loads[j].st = "resp" \/ ~backendUp
  /\ papers' = IF loads[j].st = "resp" THEN loads[j].list ELSE Empty
  /\ loads' = RemoveAt(loads, j)
  /\ UNCHANGED << gemini, selectedPaperIds, comparison, disk, call, unhandled, backendUp, currentUser, isConnected, analysisQueueRef, analysisQueuedIdsRef,
                  activeAnalysisCountRef, running, syncInFlightRef, syncPendingRef, loops,
                  server, dels, fsWait, nextId, lim, used, tickets, purged, dropped, starts, lastSync, delivered >>

Next ==
  \/ \E n \in 1..MaxPapers : handleFilesSelected(n)
  \/ \E n \in 1..MaxPapers : handleFilesSelectedProbe(n)
  \/ handleFilesSelectedResume
  \/ \E i \in 1..Len(running), ok \in BOOLEAN : processPaper(i, ok)
  \/ \E id \in PaperIds : retryAnalysis(id)
  \/ \E id \in PaperIds, t \in TagVals : saveTags(id, t)
  \/ \E id \in PaperIds : handleUpdateAnalysis(id)
  \/ \E id \in PaperIds : deletePaper(id)
  \/ handleLogout
  \/ handleLogin
  \/ backendFlips
  \/ performHealthCheck
  \/ \E i \in 1..Len(loops) : checkBackendHealth(i)
  \/ \E i \in 1..Len(loops) : savePaperToDB(i)
  \/ \E id \in PaperIds : deletePaperFromDB(id)
  \/ \E j \in 1..Len(loads) : servePapers(j)
  \/ \E j \in 1..Len(loads) : getPapersFromDB(j)

Spec == Init /\ [][Next]_vars

\* ---- selection and comparison ----
\* lines 451-461: the checkbox of a rendered row.
toggleSelection(id) ==
  /\ currentUser
  /\ id \in DOMAIN papers
  /\ selectedPaperIds' = IF id \in selectedPaperIds THEN selectedPaperIds \ {id}
                                                    ELSE selectedPaperIds \cup {id}
  /\ UNCHANGED << comparison, appUnselected >>

\* lines 463-480: the checkbox of the table head.  The rows of the page are
\* those of the tab 'All', which holds every record while there are at most
\* PAPERS_PER_PAGE of them.
toggleAllSelection ==
  /\ currentUser
  /\ LET allVisibleIds == DOMAIN papers
         allSelected == allVisibleIds # {} /\ allVisibleIds \subseteq selectedPaperIds
     IN  selectedPaperIds' = IF allSelected THEN selectedPaperIds \ allVisibleIds
                                           ELSE selectedPaperIds \cup allVisibleIds
  /\ UNCHANGED << comparison, appUnselected >>

\* lines 482-486: handleCompare up to `await comparePapersWithGemini`; the
\* button is rendered while at least two ids are selected (line 706).
handleCompare ==
  /\ currentUser
  /\ ~(Cardinality(selectedPaperIds) < 2)
  /\ LET selectedPapers == [id \in selectedPaperIds \cap DOMAIN papers |-> papers[id]]
     IN  comparison' = [pc |-> "sent", selectedPapers |-> selectedPapers]
  /\ UNCHANGED << selectedPaperIds, appUnselected >>

SelectInit ==
  AppInit /\ lim = SelectProfile /\ unhandled = FALSE /\ call = NoCall /\ disk = Storage
    /\ gemini = Service(FALSE)

SelectNext ==
  \/ \E n \in 1..MaxPapers : handleFilesSelected(n)
  \/ \E i \in 1..Len(running), ok \in BOOLEAN : processPaper(i, ok)
  \/ \E id \in PaperIds : deletePaper(id)
  \/ handleLogout
  \/ handleLogin
  \/ \E i \in 1..Len(loops) : savePaperToDB(i)
  \/ \E id \in PaperIds : deletePaperFromDB(id)
  \/ \E j \in 1..Len(loads) : servePapers(j)
  \/ \E j \in 1..Len(loads) : getPapersFromDB(j)
  \/ \E id \in PaperIds : toggleSelection(id)
  \/ toggleAllSelection
  \/ handleCompare

SelectSpec == SelectInit /\ [][SelectNext]_vars

\* ---- getApiKey (SettingsModal.tsx lines 430-462) ----
\* a getApiKey without the test of the fetch promise
FetchingNever(g) == FALSE

\* line 436: if (apiKeyFetchPromise)
Fetching(g) == g.apiKeyFetchPromise # 0

\* lines 434-447, 461: caller c calls getApiKey and awaits what it returns.
getApiKey(c) ==
  /\ gemini.callers[c].pc = "idle"
  /\ gemini.callers[c].calls < MaxCalls
  /\ LET g == [gemini EXCEPT !.callers[c].calls = @ + 1]
     IN  IF g.cachedApiKey
           THEN gemini' = [g EXCEPT !.callers[c].on = 0, !.callers[c].got = "key"]
         ELSE IF Fetching(g)
           THEN gemini' = [g EXCEPT !.callers[c] = [@ EXCEPT !.pc = "await", !.got = "none",
                                                            !.on = g.apiKeyFetchPromise]]
         ELSE IF g.env
           THEN gemini' = [g EXCEPT !.cachedApiKey = TRUE,
                                    !.callers[c].on = 0, !.callers[c].got = "key"]
         ELSE /\ Len(g.promises) < MaxRequests
              /\ gemini' = [g EXCEPT !.promises = Append(@, "fetch"),
                                     !.apiKeyFetchPromise = Len(g.promises) + 1,
                                     !.callers[c] = [@ EXCEPT !.pc = "await", !.got = "none",
                                                              !.on = Len(g.promises) + 1]]
  /\ UNCHANGED allButGemini

\* lines 447-448, 453-458: fetch('/api/config/env') of promise p settles: the
\* response is ok, or is not, or the fetch throws.
fetchSettles(p, r) ==
  /\ p \in 1..Len(gemini.promises)
  /\ gemini.promises[p] = "fetch"
  /\ gemini' = IF r = "ok"
                 THEN [gemini EXCEPT !.promises[p] = "json"]
                 ELSE [gemini EXCEPT !.promises[p] = "undefined", !.apiKeyFetchPromise = 0]
  /\ UNCHANGED allButGemini

\* lines 449-451, 453-458: res.json() of promise p settles with a key, with no key, or
\* throws.
jsonSettles(p, r) ==
  /\ p \in 1..Len(gemini.promises)
  /\ gemini.promises[p] = "json"
  /\ gemini' = IF r = "key"
                 THEN [gemini EXCEPT !.promises[p] = "key", !.cachedApiKey = TRUE,
                                     !.apiKeyFetchPromise = 0]
               ELSE IF r = "nokey"
                 THEN [gemini EXCEPT !.promises[p] = "undefined", !.cachedApiKey = FALSE,
                                     !.apiKeyFetchPromise = 0]
               ELSE [gemini EXCEPT !.promises[p] = "undefined", !.apiKeyFetchPromise = 0]
  /\ UNCHANGED allButGemini

\* lines 535 and 679: `await getApiKey()` of caller c resumes with the value of
\* the promise it was returned.
resume(c) ==
  /\ gemini.callers[c].pc = "await"
  /\ gemini.promises[gemini.callers[c].on] \in {"key", "undefined"}
  /\ gemini' = [gemini EXCEPT !.callers[c].pc = "idle",
                              !.callers[c].got = gemini.promises[gemini.callers[c].on]]
  /\ UNCHANGED allButGemini

KeyInit ==
  /\ AppInit /\ lim = QueueProfile /\ unhandled = FALSE /\ call = NoCall /\ disk = Storage
  /\ \E env \in BOOLEAN : gemini = Service(env)

KeyNext ==
  \/ \E c \in Callers : getApiKey(c)
  \/ \E p \in 1..MaxRequests, r \in {"ok", "notok", "throws"} : fetchSettles(p, r)
  \/ \E p \in 1..MaxRequests, r \in {"key", "nokey", "throws"} : jsonSettles(p, r)
  \/ \E c \in Callers : resume(c)

KeySpec == KeyInit /\ [][KeyNext]_vars

\* The runs in which the backend goes down while three files are analysed:
\* the third task waits in the backlog while the health flag is false.
OfflineInit ==
  AppInit /\ lim = OfflineProfile /\ unhandled = FALSE /\ call = NoCall /\ disk = Storage
    /\ gemini = Service(FALSE)

\* Next without the actions the profile never enables
OfflineNext ==
  \/ \E n \in 1..MaxPapers : handleFilesSelected(n)
  \/ \E n \in 1..MaxPapers : handleFilesSelectedProbe(n)
  \/ handleFilesSelectedResume
  \/ \E i \in 1..Len(running), ok \in BOOLEAN : processPaper(i, ok)
  \/ backendFlips
  \/ performHealthCheck
  \/ \E i \in 1..Len(loops) : checkBackendHealth(i)
  \/ \E i \in 1..Len(loops) : savePaperToDB(i)
  \/ \E j \in 1..Len(loads) : servePapers(j)
  \/ \E j \in 1..Len(loads) : getPapersFromDB(j)

OfflineSpec == OfflineInit /\ [][OfflineNext]_vars

\* Every analysis call settles: analyzePaperWithGemini resolves or rejects.
\* The runs are those of the profiles in which the user uploads, deletes and
\* logs out and in, the backend stays up and no analysis call rejects; FairNext
\* is Next without the actions these profiles never enable.
FairProfiles == {QueueProfile, LogoutProfile}

FairInit == Init /\ lim \in FairProfiles

FairNext ==
  \/ \E n \in 1..MaxPapers : handleFilesSelected(n)
  \/ \E i \in 1..Len(running), ok \in BOOLEAN : processPaper(i, ok)
  \/ \E id \in PaperIds : deletePaper(id)
  \/ handleLogout
  \/ handleLogin
  \/ \E i \in 1..Len(loops) : savePaperToDB(i)
  \/ \E id \in PaperIds : deletePaperFromDB(id)
  \/ \E j \in 1..Len(loads) : servePapers(j)
  \/ \E j \in 1..Len(loads) : getPapersFromDB(j)

FairSpec ==
  /\ FairInit
  /\ [][FairNext]_vars
  /\ WF_vars(\E i \in 1..Len(running), ok \in BOOLEAN : processPaper(i, ok))

\* ---- analysis response (analyzePaperWithGemini) ----
\* A parsed JSON value is a record: t is its type, s the text of a string, kv
\* the own enumerable properties of an object or array as <<key, value>> pairs
\* in Object.keys order (an array's keys are its indices).  Keys and needles
\* that the source writes in Chinese are spelled in pinyin with the prefix
\* zh_ : zh_biaoti is 标题, zh_wenti 问题, zh_silu 思路, zh_leixing 类型,
\* zh_lingyu 领域, zh_timu 题目, zh_fabiao 发表, zh_huiyi 会议, zh_kanwu 刊物,
\* zh_tongdian 痛点, zh_jiejue 解决, zh_gongxian 贡献, zh_chuangxin 创新,
\* zh_fangfa 方法, zh_jishu 技术, zh_moxing 模型, zh_jiagou 架构,
\* zh_jiejian 借鉴, zh_qifa 启发, zh_pinggu 评估, zh_pipan 批判, zh_juxian 局限,
\* zh_buzu 不足, zh_weilai 未来, zh_fangxiang 方向, zh_siweidaotu 思维导图,
\* zh_naotu 脑图, zh_jiegou 结构, zh_daotu 导图.
Str(s) == [t |-> "str", s |-> s, kv |-> << >>]

Obj(kv) == [t |-> "obj", s |-> "", kv |-> kv]

Arr1(x) == [t |-> "arr", s |-> "", kv |-> << <<"0", x>> >>]

Arr2(x, y) == [t |-> "arr", s |-> "", kv |-> << <<"0", x>>, <<"1", y>> >>]

Null == [t |-> "null", s |-> "", kv |-> << >>]

Undefined == [t |-> "undefined", s |-> "", kv |-> << >>]

\* !v
Truthy(v) == v.t \in {"obj", "arr"} \/ (v.t = "str" /\ v.s # "")

HasKey(kv, k) == \E i \in 1..Len(kv) : kv[i][1] = k

\* o[k]
Get(o, k) ==
  IF HasKey(o.kv, k) THEN o.kv[CHOOSE i \in 1..Len(o.kv) : o.kv[i][1] = k][2] ELSE Undefined

\* newObj[k] = v : an existing property keeps its place
Assign(kv, k, v) ==
  IF HasKey(kv, k)
  THEN [i \in 1..Len(kv) |-> IF kv[i][1] = k THEN <<k, v>> ELSE kv[i]]
  ELSE Append(kv, <<k, v>>)

\* the keys the responses of the model are written with
InputKeys ==
  {"title", "Title", " title", "zh_biaoti", "problem", "zh_wenti", "description", "Abstract", "solution", "idea", "zh_silu", "paper_title", "notes", "constructor", "data"}

ToLowerCase ==
  "title" :> "title" @@ "Title" :> "title" @@ " title" :> " title"
  @@ "zh_biaoti" :> "zh_biaoti" @@ "problem" :> "problem" @@ "zh_wenti" :> "zh_wenti"
  @@ "description" :> "description" @@ "Abstract" :> "abstract" @@ "solution" :> "solution"
  @@ "idea" :> "idea" @@ "zh_silu" :> "zh_silu" @@ "paper_title" :> "paper_title"
  @@ "notes" :> "notes" @@ "constructor" :> "constructor" @@ "data" :> "data"
  @@ "0" :> "0" @@ "1" :> "1"

Trim ==
  " title" :> "title" @@ "0" :> "0" @@ "1" :> "1"
  @@ "abstract" :> "abstract" @@ "constructor" :> "constructor" @@ "data" :> "data"
  @@ "description" :> "description" @@ "idea" :> "idea" @@ "notes" :> "notes"
  @@ "paper_title" :> "paper_title" @@ "problem" :> "problem" @@ "solution" :> "solution"
  @@ "title" :> "title" @@ "zh_silu" :> "zh_silu" @@ "zh_biaoti" :> "zh_biaoti"
  @@ "zh_wenti" :> "zh_wenti"

keyMap ==
  "type" :> "type" @@ "zh_leixing" :> "type" @@ "zh_lingyu" :> "type"
  @@ "title" :> "title" @@ "zh_biaoti" :> "title" @@ "zh_timu" :> "title"
  @@ "publication" :> "publication" @@ "venue" :> "publication" @@ "journal" :> "publication"
  @@ "zh_fabiao" :> "publication" @@ "zh_huiyi" :> "publication" @@ "zh_kanwu" :> "publication"
  @@ "problem" :> "problem" @@ "zh_tongdian" :> "problem" @@ "zh_wenti" :> "problem"
  @@ "solution" :> "solution_idea" @@ "solution_idea" :> "solution_idea" @@ "idea" :> "solution_idea"
  @@ "zh_silu" :> "solution_idea" @@ "zh_jiejue" :> "solution_idea" @@ "contribution" :> "contribution"
  @@ "zh_gongxian" :> "contribution" @@ "zh_chuangxin" :> "contribution" @@ "method" :> "method"
  @@ "zh_fangfa" :> "method" @@ "zh_jishu" :> "method" @@ "model" :> "model_architecture"
  @@ "model_architecture" :> "model_architecture" @@ "architecture" :> "model_architecture" @@ "zh_moxing" :> "model_architecture"
  @@ "zh_jiagou" :> "model_architecture" @@ "borrowable" :> "borrowable_ideas" @@ "borrowable_ideas" :> "borrowable_ideas"
  @@ "ideas" :> "borrowable_ideas" @@ "key_ideas" :> "borrowable_ideas" @@ "zh_jiejian" :> "borrowable_ideas"
  @@ "zh_qifa" :> "borrowable_ideas" @@ "critique" :> "critique" @@ "evaluation" :> "critique"
  @@ "zh_pinggu" :> "critique" @@ "zh_pipan" :> "critique" @@ "zh_juxian" :> "critique"
  @@ "zh_buzu" :> "critique" @@ "future_work" :> "future_work" @@ "future" :> "future_work"
  @@ "zh_weilai" :> "future_work" @@ "zh_fangxiang" :> "future_work" @@ "questions" :> "future_work"
  @@ "mind_map" :> "mind_map" @@ "mindmap" :> "mind_map" @@ "map" :> "mind_map"
  @@ "zh_siweidaotu" :> "mind_map" @@ "zh_naotu" :> "mind_map" @@ "zh_jiegou" :> "mind_map"

Includes ==
  "0" :> {} @@ "1" :> {} @@ "abstract" :> {}
  @@ "constructor" :> {} @@ "data" :> {} @@ "description" :> {}
  @@ "idea" :> {"idea"} @@ "notes" :> {} @@ "paper_title" :> {"title"}
  @@ "problem" :> {"problem"} @@ "solution" :> {"solution"} @@ "title" :> {"title"}
  @@ "zh_silu" :> {"zh_silu"} @@ "zh_biaoti" :> {"zh_biaoti"} @@ "zh_wenti" :> {"zh_wenti"}

PartialMatch(lower) ==
  LET has(needle) == needle \in Includes[lower] IN
  IF has("architect") \/ has("zh_moxing") \/ has("zh_jiagou") THEN "model_architecture"
  ELSE IF has("solution") \/ has("zh_silu") THEN "solution_idea"
  ELSE IF has("borrow") \/ has("idea") \/ has("zh_jiejian") THEN "borrowable_ideas"
  ELSE IF has("contrib") \/ has("zh_gongxian") THEN "contribution"
  ELSE IF has("problem") \/ has("zh_wenti") THEN "problem"
  ELSE IF has("method") \/ has("zh_fangfa") THEN "method"
  ELSE IF has("publ") \/ has("venue") \/ has("zh_fabiao") THEN "publication"
  ELSE IF has("title") \/ has("zh_biaoti") THEN "title"
  ELSE IF has("type") \/ has("zh_leixing") THEN "type"
  ELSE IF has("eval") \/ has("critique") \/ has("zh_pinggu") \/ has("zh_pipan") THEN "critique"
  ELSE IF has("future") \/ has("zh_weilai") \/ has("zh_fangxiang") THEN "future_work"
  ELSE IF has("mind") \/ has("map") \/ has("zh_daotu") THEN "mind_map"
  ELSE ""

\* a member keyMap inherits from Object.prototype under a lower-case name, as
\* the property name newObj[targetKey] coerces it to
ObjectPrototype == "constructor" :> "function Object() { [native code] }"

\* keyMap[lower]
Lookup(lower) ==
  IF lower \in DOMAIN keyMap THEN keyMap[lower]
  ELSE IF lower \in DOMAIN ObjectPrototype THEN ObjectPrototype[lower]
  ELSE ""

TargetKey(key) ==
  LET lower == Trim[ToLowerCase[key]]
      exact == Lookup(lower)
  IN IF exact # "" THEN exact ELSE PartialMatch(lower)

\* the body of Object.keys(sourceObj).forEach, from the i-th key on
RECURSIVE NormalizeFrom(_, _, _)
NormalizeFrom(kv, i, newObj) ==
  IF i > Len(kv) THEN newObj
  ELSE LET key == kv[i][1]
           targetKey == TargetKey(key)
       IN NormalizeFrom(kv, i + 1,
            Assign(newObj, IF targetKey # "" THEN targetKey ELSE key, kv[i][2]))

NormalizeObject(sourceObj) == Obj(NormalizeFrom(sourceObj.kv, 1, << >>))

LooksLikeResult(obj) ==
  LET keys == {ToLowerCase[obj.kv[i][1]] : i \in 1..Len(obj.kv)} IN
  /\ ("title" \in keys \/ "zh_biaoti" \in keys)
  /\ ("problem" \in keys \/ "zh_wenti" \in keys \/ "description" \in keys
        \/ "abstract" \in keys)

RECURSIVE findRelevantObject(_)
RECURSIVE FirstFound(_, _)
RECURSIVE FirstFoundLast(_, _)
FirstFoundLast(kv, i) ==
  IF i > Len(kv) THEN Null
  ELSE LET found == FirstFoundLast(kv, i + 1) IN
       IF found # Null THEN found ELSE findRelevantObject(kv[i][2])

\* the two loops of findRelevantObject over elements or own values, from the
\* i-th on: the first search that finds an object ends them
FirstFound(kv, i) ==
  IF i > Len(kv) THEN Null
  ELSE LET found == findRelevantObject(kv[i][2]) IN
       IF found # Null THEN found ELSE FirstFound(kv, i + 1)

findRelevantObject(obj) ==
  IF obj.t \notin {"obj", "arr"} THEN Null
  ELSE IF LooksLikeResult(obj) THEN obj
  ELSE FirstFound(obj.kv, 1)

SourceObj(obj) ==
  LET found == findRelevantObject(obj) IN IF found # Null THEN found ELSE obj

normalizeKeys(obj) == NormalizeObject(SourceObj(obj))

\* !result.title && !result.problem
MissingKeyFields(result) == ~Truthy(Get(result, "title")) /\ ~Truthy(Get(result, "problem"))

\* !result.title
MissingTitle(result) == ~Truthy(Get(result, "title"))

\* ---- responses the analysis call is given ----
Texts == {Str("a"), Str("b"), Str("")}

Flat ==
  {Obj(<< <<k, v>> >>) : k \in InputKeys, v \in Texts}
  \cup {Obj(<< <<k[1], v>>, <<k[2], w>> >>) :
          k \in {p \in InputKeys \X InputKeys : p[1] # p[2]}, v \in Texts, w \in Texts}

Leaves ==
  {Obj(<< <<"title", Str("a")>>, <<"problem", Str("b")>> >>),
   Obj(<< <<"Title", Str("b")>>, <<"Abstract", Str("a")>> >>),
   Obj(<< <<"zh_biaoti", Str("a")>>, <<"zh_wenti", Str("")>> >>),
   Obj(<< <<"title", Str("b")>> >>),
   Obj(<< <<" title", Str("a")>>, <<"problem", Str("b")>> >>),
   Str("a")}

WrapKeys == {"data", "title", "problem", "notes"}

Wrapped(inner, last, keys) ==
  {Obj(<< <<k, x>> >>) : k \in keys, x \in inner}
  \cup {Obj(<< <<k[1], x>>, <<k[2], y>> >>) :
          k \in {p \in keys \X keys : p[1] # p[2]}, x \in inner, y \in last}
  \cup {Arr1(x) : x \in inner}
  \cup {Arr2(x, y) : x \in inner, y \in last}
  \cup {Arr2(y, x) : x \in inner, y \in last}

Nested == Wrapped(Leaves, Leaves, WrapKeys)

Responses ==
  Flat \cup Nested
       \cup Wrapped(Nested, {Obj(<< <<"Title", Str("b")>>, <<"Abstract", Str("a")>> >>), Str("a")},
                    {"data"})

Modes == {"external", "managed"}

\* the managed path parses the text from its first '{' to its last '}', the
\* external path the whole content
Parsed(mode) == IF mode = "managed" THEN {j \in Responses : j.t = "obj"} ELSE Responses

AnalysisInit ==
  /\ AppInit
  /\ lim = QueueProfile
  /\ unhandled = FALSE
  /\ disk = Storage
  /\ gemini = Service(FALSE)
  /\ \E mode \in Modes :
       call \in {[pc |-> "parsed", mode |-> mode, json |-> j, result |-> Null] :
                   j \in Parsed(mode)}

\* const result = normalizeKeys(json)
normalizeResponse ==
  /\ call.pc = "parsed"
  /\ call' = [call EXCEPT !.pc = "normalized", !.result = normalizeKeys(call.json)]
  /\ UNCHANGED << gemini, selectedPaperIds, comparison, disk, currentUser, isConnected, backendUp, papers, analysisQueueRef,
                  analysisQueuedIdsRef, activeAnalysisCountRef, running, syncInFlightRef,
                  syncPendingRef, loops, server, dels, loads, fsWait, nextId, lim, used,
                  tickets, purged, dropped, starts, lastSync, delivered, unhandled >>

\* the external path throws when both title and problem are falsy, the managed
\* path when title is falsy; otherwise the call resolves with result
Rejects(mode, result) ==
  IF mode = "external" THEN MissingKeyFields(result) ELSE MissingTitle(result)

validateResult ==
  /\ call.pc = "normalized"
  /\ call' = [call EXCEPT !.pc = IF Rejects(call.mode, call.result)
                                 THEN "rejected" ELSE "resolved"]
  /\ UNCHANGED << gemini, selectedPaperIds, comparison, disk, currentUser, isConnected, backendUp, papers, analysisQueueRef,
                  analysisQueuedIdsRef, activeAnalysisCountRef, running, syncInFlightRef,
                  syncPendingRef, loops, server, dels, loads, fsWait, nextId, lim, used,
                  tickets, purged, dropped, starts, lastSync, delivered, unhandled >>

AnalysisNext ==
  \/ normalizeResponse
  \/ validateResult

AnalysisSpec == AnalysisInit /\ [][AnalysisNext]_vars

\* ---- backend storage (server.js) ----
\* disk.papers is the array kept in data_store.json, disk.files the files that
\* exist, disk.req and disk.res the last request and its response, disk.rep
\* tells that the last request repeated the one before it.  A stored record
\* and a request body are functions from the names of the properties they
\* have to their values.  A path is resolved against UPLOAD_DIR: up counts
\* the directories it climbs above UPLOAD_DIR, segs are the names below.
PdfExt == << ".", "p", "d", "f" >>

TxtExt == << ".", "t", "x", "t" >>

\* the characters of `${id}`
Chars == "a" :> << "a" >> @@ "../a" :> << ".", ".", "/", "a" >>

ServerIds == DOMAIN Chars

\* filename.includes('..')
IncludesDotDotNever(filename) == FALSE

IncludesDotDot(filename) ==
  \E i \in 1..(Len(filename) - 1) : filename[i] = "." /\ filename[i + 1] = "."

\* filename.endsWith('.pdf')
EndsWithPdf(filename) ==
  /\ Len(filename) >= Len(PdfExt)
  /\ SubSeq(filename, Len(filename) - Len(PdfExt) + 1, Len(filename)) = PdfExt

\* path.join: one segment of the name is applied to the path walked so far
Step(at, seg) ==
  IF seg = << >> \/ seg = << "." >> THEN at
  ELSE IF seg = << ".", "." >>
       THEN IF at.segs = << >> THEN [at EXCEPT !.up = @ + 1]
            ELSE [at EXCEPT !.segs = SubSeq(@, 1, Len(@) - 1)]
       ELSE [at EXCEPT !.segs = Append(@, seg)]

\* path.join(UPLOAD_DIR, name), reading name from its i-th character with
\* seg the segment read so far
RECURSIVE JoinFrom(_, _, _, _)
JoinFrom(name, i, seg, at) ==
  IF i > Len(name) THEN Step(at, seg)
  ELSE IF name[i] = "/" THEN JoinFrom(name, i + 1, << >>, Step(at, seg))
  ELSE JoinFrom(name, i + 1, Append(seg, name[i]), at)

PathJoin(name) == JoinFrom(name, 1, << >>, [up |-> 0, segs |-> << >>])

NoPath == [up |-> 0, segs |-> << >>]

\* paper.file.length > 500
Base64File == "data:application/pdf;base64,JVBERi0x..."

LongText(file) == file = Base64File

FileValues == {"absent", "/api/files/a.pdf", Base64File}

\* a request body with the properties that are not absent
Body(id, status, errorMessage, file) ==
  LET all == [id |-> id, status |-> status, errorMessage |-> errorMessage, file |-> file] IN
  [k \in {f \in DOMAIN all : all[f] # "absent"} |-> all[k]]

Bodies ==
  {Body(id, status, errorMessage, file) :
     id \in ServerIds \cup {"absent"}, status \in {"analyzing", "success"},
     errorMessage \in {"absent", "msg"}, file \in FileValues}

NoBody == Body("absent", "analyzing", "absent", "absent")

\* the names GET /api/files/:filename is asked for: up to MaxParts parts
\* followed by an extension or none
Parts == {<< ".", ".", "/" >>, << ".", "/" >>, << "a" >>, << "a", "/" >>, << "." >>}

RECURSIVE Names(_)
Names(n) ==
  IF n = 0 THEN {<< >>}
  ELSE LET shorter == Names(n - 1) IN
       shorter \cup {s \o part : s \in shorter, part \in Parts}

Filenames == {s \o ext : s \in Names(MaxParts), ext \in {<< >>, PdfExt, TxtExt}}

Request(op, body, id, filename) == [op |-> op, body |-> body, id |-> id, filename |-> filename]

Response(status, file) == [status |-> status, file |-> file]

Answered(stored, files, req, res) ==
  disk' = [papers |-> stored, files |-> files, req |-> req, res |-> res,
           rep |-> (req = disk.req)]

\* papers.findIndex(p => p.id === id): 0 stands for -1
FindIndex(stored, id) ==
  LET found == {i \in 1..Len(stored) : stored[i].id = id} IN
  IF found = {} THEN 0 ELSE CHOOSE i \in found : \A j \in found : i <= j

\* { ...old, ...metadata }
Spread(old, metadata) ==
  [k \in DOMAIN old \cup DOMAIN metadata |-> IF k \in DOMAIN metadata THEN metadata[k] ELSE old[k]]

UpsertPush(stored, index, metadata) == Append(stored, metadata)

\* lines 141-150
UpsertAt(stored, index, metadata) ==
  IF index # 0 THEN [stored EXCEPT ![index] = Spread(@, metadata)]
  ELSE Append(stored, metadata)

\* app.post('/api/papers')
postPapers(paper) ==
  LET req == Request("post", paper, "", << >>) IN
  IF "id" \notin DOMAIN paper
  THEN /\ Answered(disk.papers, disk.files, req, Response(400, NoPath))
       /\ UNCHANGED appVars
  ELSE LET written == "file" \in DOMAIN paper /\ LongText(paper.file)
           files == IF written THEN disk.files \cup {PathJoin(Chars[paper.id] \o PdfExt)}
                    ELSE disk.files
           index == FindIndex(disk.papers, paper.id)
           metadata == [k \in (DOMAIN paper) \ {"file"} |-> paper[k]]
           papers1 == UpsertAt(disk.papers, index, metadata)
       IN /\ Len(papers1) <= MaxStore
          /\ Answered(papers1, files, req, Response(200, NoPath))
          /\ UNCHANGED appVars

\* app.delete('/api/papers/:id')
deletePapers(id) ==
  /\ Answered(SelectSeq(disk.papers, LAMBDA p : p.id # id),
              disk.files \ {PathJoin(Chars[id] \o PdfExt)},
              Request("delete", NoBody, id, << >>), Response(200, NoPath))
  /\ UNCHANGED appVars

\* app.get('/api/files/:filename')
getFiles(filename) ==
  /\ IF filename = << >> \/ IncludesDotDot(filename) \/ ~EndsWithPdf(filename)
     THEN Answered(disk.papers, disk.files, Request("file", NoBody, "", filename),
                   Response(400, NoPath))
     ELSE LET filePath == PathJoin(filename) IN
          Answered(disk.papers, disk.files, Request("file", NoBody, "", filename),
                   IF filePath \in disk.files THEN Response(200, filePath)
                   ELSE Response(404, NoPath))
  /\ UNCHANGED appVars

ServerInit == Init /\ lim = QueueProfile

ServerNext ==
  \/ \E paper \in Bodies : postPapers(paper)
  \/ \E id \in ServerIds : deletePapers(id)
  \/ \E filename \in Filenames : getFiles(filename)

ServerSpec == ServerInit /\ [][ServerNext]_vars

\* ---- what the claims speak of ----
Tickets(s) == {s[k].ticket : k \in 1..Len(s)}

SavesInFlight(id) == {i \in 1..Len(loops) : loops[i].id = id /\ loops[i].pc = "save"}

\* no drain loop runs for id and no record of id is pending
Quiescent(id) ==
  /\ \A i \in 1..Len(loops) : loops[i].id # id
  /\ id \notin DOMAIN syncPendingRef

\* the metadata of a record, as the backend stores it
Meta(p) == [status |-> p.status, saveStatus |-> p.saveStatus, analysis |-> p.analysis,
            tags |-> p.tags, err |-> p.err]

\* C1: the number of processPaper invocations started and not settled never
\* exceeds MAX_PARALLEL_ANALYSES.
C1_InFlightBounded == Len(running) <= MAX_PARALLEL_ANALYSES

\* C2: at most one savePaperToDB request per paper id is outstanding.
C2_OneSavePerId == \A id \in PaperIds : Cardinality(SavesInFlight(id)) <= 1

\* C3: at quiescence the record the backend holds for an id of the store is
\* the last record passed to syncPaperToDB for it.  Stated for the runs in
\* which the backend never went down, where no request fails.
C3_BackendHoldsLast ==
  \A id \in DOMAIN papers :
    (used.flips = 0 /\ Quiescent(id) /\ lastSync[id].seq > 0) =>
      /\ id \in DOMAIN server
      /\ server[id].seq = lastSync[id].seq
      /\ Meta(server[id]) = Meta(lastSync[id].paper)

\* C4: the backlog holds at most one task per paper id.
C4_OneTaskPerId ==
  \A j, k \in 1..Len(analysisQueueRef) :
    j # k => analysisQueueRef[j].id # analysisQueueRef[k].id

\* the tickets the runs of FairSpec hand out: one for each paper
FairTickets == 1..MaxPapers

Waiting(t) == t \in Tickets(analysisQueueRef)

Dispatched(t) == t \in DOMAIN starts

\* C5 as stated: every accepted task is eventually dispatched.
C5_AcceptedIsDispatched ==
  \A t \in FairTickets : Waiting(t) ~> Dispatched(t)

\* C5: when every analysis call settles, a task that waits in the backlog is
\* eventually dispatched unless deletePaper or handleLogout removes it from the
\* backlog, a task so removed is never dispatched, and processPaper is called
\* at most once for a ticket.
C5_DispatchedUnlessRemoved ==
  /\ [](\A t \in DOMAIN starts : starts[t] = 1)
  /\ [](\A t \in purged \cup dropped : ~Dispatched(t))
  /\ \A t \in FairTickets :
       Waiting(t) ~> (Dispatched(t) \/ t \in purged \/ t \in dropped)

\* C5 witness: a task that had to wait was dispatched and has settled, and
\* another task was removed from the backlog by handleLogout or deletePaper.
C5_Witness ==
  /\ (purged \cup dropped) # {}
  /\ \E t \in DOMAIN starts :
       /\ t > MAX_PARALLEL_ANALYSES
       /\ t \notin Tickets(running)
       /\ \E u \in purged \cup dropped : u < t

\* C6: a task that deletePaper removed from the backlog is never dispatched.
C6_PurgedNeverRuns == \A i \in 1..Len(running) : running[i].ticket \notin purged

\* C6 witness: a task was purged while it waited, and a task accepted before it
\* has settled since and freed its slot for a task accepted after it.
C6_Witness ==
  \E t \in purged :
    /\ \E i \in 1..Len(running) : running[i].ticket > t
    /\ \E u \in 1..(t - 1) : u \notin Tickets(running)

\* C7: when the analysis of a task whose id was deleted while it ran settles,
\* the store holds no record for the id and no sync is started for it.
C7_DeletedResultDiscarded ==
  [][\A i \in 1..Len(running) :
       (running[i].del /\ running[i].ticket \notin Tickets(running')) =>
          /\ running[i].id \notin DOMAIN papers'
          /\ lastSync'[running[i].id].seq = lastSync[running[i].id].seq]_vars

\* C8: tasks are dispatched in the order they were accepted: when a task is
\* dispatched, no task accepted before it is left waiting in the backlog.
C8_FifoDispatch ==
  [][\A t \in (DOMAIN starts') \ (DOMAIN starts) :
       \A u \in Tickets(analysisQueueRef') : t < u]_vars

\* C8 witness: a task that had to wait runs, while the task accepted right
\* after it still waits.
C8_Witness ==
  \E i \in 1..Len(running) :
    /\ running[i].ticket > MAX_PARALLEL_ANALYSES
    /\ Len(analysisQueueRef) > 0
    /\ analysisQueueRef[1].ticket = running[i].ticket + 1

\* C9: the records delivered to savePaperToDB for one id are delivered in the
\* order they were passed to syncPaperToDB.
C9_DeliveredInOrder ==
  [][\A id \in PaperIds : delivered'[id] >= delivered[id]]_vars

\* C10: at quiescence the saveStatus shown for a record is the outcome of the
\* sync attempt for the last record passed to syncPaperToDB for its id.
C10_StatusOfLastSync ==
  \A id \in DOMAIN papers :
    (Quiescent(id) /\ lastSync[id].seq > 0) =>
      /\ lastSync[id].outcome \in {"saved", "error"}
      /\ papers[id].saveStatus = lastSync[id].outcome

\* the ids of the tasks of sequence q
TaskIds(q) == {q[k].id : k \in 1..Len(q)}

\* the ids of the tasks that enqueueAnalysis accepts in this step
AcceptedIds ==
  {analysisQueueRef'[k].id :
     k \in {j \in 1..Len(analysisQueueRef') : analysisQueueRef'[j].ticket > tickets}}
  \cup {running'[k].id : k \in {j \in 1..Len(running') : running'[j].ticket > tickets}}

\* C11: enqueueAnalysis(id) is a no-op while a task for id waits in the
\* backlog or the analysis for id is running: no task is accepted for such an id.
C11_EnqueueNoOpWhileBusy ==
  [][\A id \in AcceptedIds :
       id \notin TaskIds(analysisQueueRef) \cup TaskIds(running)]_vars

\* C12: once a save of a record with raw file bytes has succeeded for an id
\* (the backend holds an id uploaded in this run), the store holds the server
\* reference, and no savePaperToDB request that starts for the id carries raw
\* bytes.
C12_NoBytesAgain ==
  [][\A i \in 1..Len(loops') :
       LET l == loops'[i] IN
       (/\ l.pc = "save"
        /\ delivered'[l.id] # delivered[l.id]
        /\ l.seq = delivered'[l.id]
        /\ l.id \in DOMAIN server'
        /\ l.id > lim.stored)
       => /\ l.paper.file = "url"
          /\ l.id \in DOMAIN papers' => papers'[l.id].file = "url"]_vars

\* C13: a record's saveStatus is 'saving' only while a savePaperToDB request
\* for its id is in flight.
C13_SavingOnlyInFlight ==
  \A id \in DOMAIN papers :
    papers[id].saveStatus = "saving" => SavesInFlight(id) # {}

C15_ResolvedHasTitle ==
  call.pc = "resolved" => Truthy(Get(call.result, "title"))

\* C16: a record of the store has an analysis iff its status is 'success'.
C16_AnalysisIffSuccess ==
  \A id \in DOMAIN papers : papers[id].analysis <=> papers[id].status = "success"

\* C17: a record of the store has an errorMessage iff its status is 'error'.
C17_ErrorMessageIffError ==
  \A id \in DOMAIN papers : papers[id].err <=> papers[id].status = "error"

\* C18: normalizeKeys puts the value of every key that is an entry of the
\* alias table (compared lower-cased and trimmed) under the canonical field of
\* that entry, and keeps a key that matches no alias and no substring rule
\* under its own name with its value.
C18_AliasesToCanonical ==
  call.pc \in {"normalized", "resolved", "rejected"} =>
    LET sourceObj == SourceObj(call.json) IN
    \A i \in 1..Len(sourceObj.kv) :
      LET key == sourceObj.kv[i][1]
          lower == Trim[ToLowerCase[key]]
      IN /\ lower \in DOMAIN keyMap =>
              Get(call.result, keyMap[lower]) = sourceObj.kv[i][2]
         /\ (lower \notin DOMAIN keyMap /\ PartialMatch(lower) = "") =>
              Get(call.result, key) = sourceObj.kv[i][2]

\* every value of a response in depth-first order, a value before the values
\* nested in it, those in key or element order
RECURSIVE PreOrder(_)
RECURSIVE PreOrderFrom(_, _)
PreOrderFrom(kv, i) ==
  IF i > Len(kv) THEN << >> ELSE PreOrder(kv[i][2]) \o PreOrderFrom(kv, i + 1)

PreOrder(v) == << v >> \o PreOrderFrom(v.kv, 1)

\* the first object of the response, in that order, with a title key and a
\* problem-like key; Null when there is none
FirstQualifying(v) ==
  LET nodes == PreOrder(v)
      hits == {i \in 1..Len(nodes) : LooksLikeResult(nodes[i])}
  IN IF hits = {} THEN Null
     ELSE nodes[CHOOSE i \in hits : \A j \in hits : i <= j]

C20_DeleteIsBestEffort ==
  /\ [](~unhandled)
  /\ [][\A id \in PaperIds : dels'[id] > dels[id] => id \notin DOMAIN papers']_vars

\* C20 witness: deletePaper removed a record and its DELETE request is
\* outstanding while the backend, which holds the record, is down.
C20_Witness ==
  \E id \in PaperIds :
    /\ dels[id] > 0
    /\ ~backendUp
    /\ id \notin DOMAIN papers
    /\ id \in DOMAIN server


\* C21: the metadata store holds at most one record per id after any sequence
\* of POST and DELETE requests, and a POST that repeats the request before it
\* leaves the store and the files as that request left them.
C21_IdempotentUpsert ==
  /\ [](\A i, j \in 1..Len(disk.papers) : disk.papers[i].id = disk.papers[j].id => i = j)
  /\ [][(disk'.rep /\ disk'.req.op = "post") =>
          (disk'.papers = disk.papers /\ disk'.files = disk.files)]_vars

\* C21 witness: a record was posted, posted again with other values for some
\* properties, and then that same request was repeated.
C21_Witness ==
  /\ disk.rep
  /\ disk.req.op = "post"
  /\ disk.res.status = 200
  /\ "errorMessage" \notin DOMAIN disk.req.body
  /\ \E i \in 1..Len(disk.papers) :
       /\ disk.papers[i].id = disk.req.body.id
       /\ "errorMessage" \in DOMAIN disk.papers[i]

\* C22: GET /api/files/:filename answers with an error whenever the filename
\* contains '..' or does not end with '.pdf', and the file it serves lies in
\* the upload directory.
C22_FilesOnlyFromUploads ==
  disk.req.op = "file" =>
    /\ (IncludesDotDot(disk.req.filename) \/ ~EndsWithPdf(disk.req.filename))
         => disk.res.status = 400
    /\ disk.res.status = 200 => (disk.res.file.up = 0 /\ disk.res.file.segs # << >>)

\* C22 witness: a file exists outside the upload directory and the request
\* for it by a climbing name was answered with an error.
C22_Witness ==
  /\ disk.req.op = "file"
  /\ disk.res.status = 400
  /\ EndsWithPdf(disk.req.filename)
  /\ PathJoin(disk.req.filename) \in disk.files
  /\ PathJoin(disk.req.filename).up > 0


C24_UnhealthySkipsSave ==
  [][\A i \in 1..Len(loops) :
       (checkBackendHealth(i) /\ ~backendUp) =>
         LET l == loops[i] IN
         /\ l.id \in DOMAIN papers => papers'[l.id].saveStatus = "error"
         /\ delivered'[l.id] = delivered[l.id]
         /\ \A k \in 1..Len(loops') :
              (loops'[k].id = l.id /\ loops'[k].seq = l.seq) => loops'[k].pc # "save"
         /\ IF l.id \in DOMAIN syncPendingRef
              THEN /\ l.id \notin DOMAIN syncPendingRef'
                   /\ l.id \in syncInFlightRef'
                   /\ \E k \in 1..Len(loops') :
                        /\ loops'[k].id = l.id
                        /\ loops'[k].seq = syncPendingRef[l.id].seq
                        /\ loops'[k].paper = syncPendingRef[l.id].paper
              ELSE l.id \notin syncInFlightRef']_vars

\* C24 witness: the backend is down, a record shows 'error', and the loop of
\* its id is probing again for a record that was passed after the one the
\* loop started with.
C24_Witness ==
  \E i \in 1..Len(loops) :
    /\ loops[i].pc = "probe"
    /\ ~backendUp
    /\ loops[i].id \in DOMAIN papers
    /\ papers[loops[i].id].saveStatus = "error"
    /\ lastSync[loops[i].id].seq = loops[i].seq
    /\ lastSync[loops[i].id].seq > delivered[loops[i].id] + 1


\* C25: whenever the backlog is non-empty exactly MAX_PARALLEL_ANALYSES
\* analysis calls are running, and the step in which a running call settles
\* with a non-empty backlog dispatches the head of the backlog, whose record
\* becomes 'analyzing'.
C25_WorkConserving ==
  /\ [](analysisQueueRef # << >> => Len(running) = MAX_PARALLEL_ANALYSES)
  /\ [][\A i \in 1..Len(running), ok \in BOOLEAN :
          (processPaper(i, ok) /\ analysisQueueRef # << >>) =>
            LET task == Head(analysisQueueRef) IN
            /\ task.ticket \in Tickets(running')
            /\ task.id \in DOMAIN papers' => papers'[task.id].status = "analyzing"]_vars


\* C26: the status of a record that stays in the store changes only in a step
\* of the analysis queue for its id: the dispatch of a task of that id, or
\* the settling of a processPaper call of that id.
C26_StatusOnlyByQueue ==
  [][\A id \in (DOMAIN papers) \cap (DOMAIN papers') :
       papers'[id].status # papers[id].status =>
         \/ \E k \in 1..Len(running') :
              running'[k].id = id /\ running'[k].ticket \notin Tickets(running)
         \/ \E i \in 1..Len(running), ok \in BOOLEAN :
              running[i].id = id /\ processPaper(i, ok)]_vars


\* C27: retryAnalysis(id) on a record in status 'error' with no task of id
\* waiting or running is accepted by enqueueAnalysis; the record shows 'idle'
\* while its task waits in the backlog and 'analyzing' once it is dispatched.
C27_RetryRestartsFromIdle ==
  [][\A id \in PaperIds :
       (retryAnalysis(id) /\ id \notin TaskIds(analysisQueueRef) \cup TaskIds(running)) =>
         /\ tickets' = tickets + 1
         /\ id \in TaskIds(analysisQueueRef') => papers'[id].status = "idle"
         /\ id \in TaskIds(running') => papers'[id].status = "analyzing"]_vars


\* a record of id is in the store with saveStatus 'error' and no drain loop
\* runs for it
SyncFailed(id) ==
  /\ id \in DOMAIN papers
  /\ papers[id].saveStatus = "error"
  /\ Quiescent(id)

\* C28: a record whose sync failed is passed to the drain loop again by the
\* next mutation of the record, and also in the step in which the health flag
\* turns true again.
C28_FailedSyncRetried ==
  [][\A id \in PaperIds :
       SyncFailed(id) =>
         /\ (lastSync'[id].seq > lastSync[id].seq) =>
              \E k \in 1..Len(loops') : loops'[k].id = id /\ loops'[k].seq = lastSync'[id].seq
         /\ (~isConnected /\ isConnected') =>
              \E k \in 1..Len(loops') : loops'[k].id = id]_vars


\* C29: a record of the store whose saveStatus is 'error' is still in the
\* store after every step that is not deletePaper of its id or handleLogout,
\* with the analysis it had and, unless the step is saveTags, its tags.
C29_FailedRecordKept ==
  [][\A id \in PaperIds :
       (/\ id \in DOMAIN papers
        /\ papers[id].saveStatus = "error"
        /\ ~deletePaper(id)
        /\ ~handleLogout) =>
         /\ id \in DOMAIN papers'
         /\ papers[id].analysis => papers'[id].analysis
         /\ (\A t \in TagVals : ~saveTags(id, t)) => papers'[id].tags = papers[id].tags]_vars


\* the fields of a record that handlers mutate
Content(p) == [status |-> p.status, analysis |-> p.analysis, tags |-> p.tags, err |-> p.err]

\* C30: every step of a handler that creates a record or changes its status,
\* analysis, errorMessage or tags (the replacement of the store by a reload
\* apart) calls syncPaperToDB with the record as the store then holds it.
C30_EveryMutationSynced ==
  [][\A id \in DOMAIN papers' :
       (/\ id \notin DOMAIN papers \/ Content(papers'[id]) # Content(papers[id])
        /\ \A j \in 1..Len(loads) : ~getPapersFromDB(j)) =>
         /\ lastSync'[id].seq > lastSync[id].seq
         /\ Content(lastSync'[id].paper) = Content(papers'[id])]_vars


\* no drain loop of id is suspended at a health probe or a save request
LoopsSettled(id) == \A i \in 1..Len(loops) : loops[i].id # id

\* C31: once every health probe and save request of the drain loops of an id
\* has settled, syncPendingRef holds no value for the id and syncInFlightRef
\* does not hold the id.
C31_DrainedAtQuiescence ==
  \A id \in PaperIds :
    LoopsSettled(id) => id \notin DOMAIN syncPendingRef /\ id \notin syncInFlightRef

\* a record synchronised more than once, whose last save was attempted, with
\* every request of its loops settled
C31_Witness ==
  \E id \in DOMAIN papers :
    /\ lastSync[id].seq >= 2
    /\ lastSync[id].outcome # "none"
    /\ LoopsSettled(id)
    /\ id \notin DOMAIN syncPendingRef
    /\ id \notin syncInFlightRef

\* C32: deletePaper(id) removes the record of id, every backlog task of id and
\* the pending sync value of id, and issues the remote delete; the records,
\* the backlog tasks and their order, and the pending sync values of the other
\* ids, and the running count, are as before.
C32_DeleteFrame ==
  [][\A id \in PaperIds :
       deletePaper(id) =>
         /\ DOMAIN papers' = DOMAIN papers \ {id}
         /\ \A o \in DOMAIN papers' : papers'[o] = papers[o]
         /\ analysisQueueRef' = SelectSeq(analysisQueueRef, LAMBDA task : task.id # id)
         /\ DOMAIN syncPendingRef' = DOMAIN syncPendingRef \ {id}
         /\ \A o \in DOMAIN syncPendingRef' : syncPendingRef'[o] = syncPendingRef[o]
         /\ dels'[id] = dels[id] + 1
         /\ \A o \in PaperIds \ {id} : dels'[o] = dels[o]
         /\ activeAnalysisCountRef' = activeAnalysisCountRef]_vars

\* a record with a backlog task was deleted while another task waits in the
\* backlog and the remote delete is on its way
C32_Witness ==
  \E id \in PaperIds :
    /\ id \notin DOMAIN papers
    /\ dels[id] > 0
    /\ purged # {}
    /\ Len(analysisQueueRef) > 0
    /\ activeAnalysisCountRef > 0

\* C33: while isConnected is false an in-flight analysis that settles writes
\* its result or its error to its record, and the task at the head of the
\* backlog is dispatched when the settlement frees a slot.
C33_AnalysisNotGated ==
  [][\A i \in 1..Len(running) : \A ok \in BOOLEAN :
       (~isConnected /\ processPaper(i, ok)) =>
         /\ running[i].id \in DOMAIN papers =>
               papers'[running[i].id].status = (IF ok THEN "success" ELSE "error")
         /\ (Len(analysisQueueRef) > 0 /\ activeAnalysisCountRef <= MAX_PARALLEL_ANALYSES) =>
               /\ Head(analysisQueueRef).ticket \in Tickets(running')
               /\ Head(analysisQueueRef).ticket \notin Tickets(analysisQueueRef')]_vars

\* with the flag false and the backend down, the task accepted third has
\* left the backlog and is in flight, and the save of a completed analysis is
\* on its way
C33_Witness ==
  /\ ~isConnected
  /\ ~backendUp
  /\ \E k \in 1..Len(running) : running[k].ticket = 3
  /\ \E i \in 1..Len(loops) : loops[i].pc = "save" /\ loops[i].paper.status = "success"


\* C34: the papers handed to a comparison request are at least two, each of
\* them in status 'success' with a non-null analysis.
C34_ComparesAnalyzedPapers ==
  comparison.pc = "sent" =>
    /\ Cardinality(DOMAIN comparison.selectedPapers) >= 2
    /\ \A id \in DOMAIN comparison.selectedPapers :
         /\ comparison.selectedPapers[id].status = "success"
         /\ comparison.selectedPapers[id].analysis

\* C38: every selected id has a record in the paper store.
C38_SelectedAreStored == selectedPaperIds \subseteq DOMAIN papers

\* deletePaper(id) was called: in a run without a logout and without a backend
\* outage the store is never reloaded, and the record of an id that was
\* created is absent only after its deletion
Deleted(id) ==
  /\ used.logouts = 0
  /\ used.flips = 0
  /\ id < nextId
  /\ id \notin DOMAIN papers

\* C35: after deletePaper(id), once the DELETE request and every save request
\* and drain loop of id have settled, the backend holds no record of id.
C35_DeletedNotStored ==
  \A id \in PaperIds :
    (Deleted(id) /\ dels[id] = 0 /\ LoopsSettled(id) /\ id \notin DOMAIN syncPendingRef)
      => id \notin DOMAIN server

\* C36: analysisQueuedIdsRef is the set of ids with a task in the backlog or an
\* analysis in flight, and activeAnalysisCountRef is the number of analyses
\* in flight.
C36_RefsMatchTasks ==
  /\ analysisQueuedIdsRef =
       {analysisQueueRef[k].id : k \in 1..Len(analysisQueueRef)}
         \cup {running[k].id : k \in 1..Len(running)}
  /\ activeAnalysisCountRef = Len(running)

\* C37: a record in status 'analyzing' has an analysis in flight for its id,
\* and a record in status 'idle' has a task for its id in the backlog.
C37_StatusHasTask ==
  \A id \in DOMAIN papers :
    /\ papers[id].status = "analyzing" => \E k \in 1..Len(running) : running[k].id = id
    /\ papers[id].status = "idle" =>
         \E k \in 1..Len(analysisQueueRef) : analysisQueueRef[k].id = id

\* the requests to /api/config/env not yet settled
Outstanding == {p \in 1..Len(gemini.promises) : gemini.promises[p] \in {"fetch", "json"}}

\* C39: at most one request to /api/config/env is outstanding; the callers
\* that wait for an outstanding request all wait for that one, and a caller
\* receives the value its request settled with; a call made with a key cached
\* returns the key and issues no request; a call made with no key cached, no
\* request outstanding and no key in the environment issues a new request.
C39_SingleFlight ==
  /\ [](/\ Cardinality(Outstanding) <= 1
        /\ \A c \in Callers :
             LET k == gemini.callers[c] IN
             /\ (k.pc = "await" /\ k.on \in Outstanding) => k.on = gemini.apiKeyFetchPromise
             /\ (k.pc = "idle" /\ k.on # 0) => k.got = gemini.promises[k.on])
  /\ [][\A c \in Callers :
          getApiKey(c) =>
            /\ gemini.cachedApiKey =>
                  /\ gemini'.promises = gemini.promises
                  /\ gemini'.callers[c].got = "key"
            /\ (~gemini.cachedApiKey /\ Outstanding = {} /\ ~gemini.env) =>
                  /\ Len(gemini'.promises) = Len(gemini.promises) + 1
                  /\ gemini'.callers[c].on = Len(gemini'.promises)]_vars

\* the first request failed, a second one was issued and gave its key to the
\* two callers that waited for it, and a later call got the cached key
C39_Witness ==
  /\ Len(gemini.promises) = 2
  /\ gemini.promises[1] = "undefined"
  /\ \E c1, c2, c3 \in Callers :
       /\ c1 # c2
       /\ gemini.callers[c1].on = 2 /\ gemini.callers[c1].got = "key"
       /\ gemini.callers[c2].on = 2 /\ gemini.callers[c2].got = "key"
       /\ gemini.callers[c3].on = 0 /\ gemini.callers[c3].got = "key"
====
